---- MODULE Spec2Model ----
(***************************************************************************)
(* Purralizer: the embedded relational store (src/src/db.ts), the          *)
(* upsert/link import engine and the analytics queries                     *)
(* (src/src/db/operations.ts).                                             *)
(*                                                                         *)
(* The sql.js Database object is the variable db: a record of tables,      *)
(* every table a sequence of rows in rowid order, plus the sqlite_sequence *)
(* counters that AUTOINCREMENT keeps.  localStorage holds the persisted    *)
(* copy written by saveDatabase.  last describes the most recent call of   *)
(* an engine entry point: its name, its arguments and what it returned.    *)
(* work counts what a behaviour has submitted so far (purchases and line   *)
(* items, other calls), so that a bound on it bounds the behaviours.       *)
(*                                                                         *)
(* Numbers are integers: prices, quantities and volumes are counted in a   *)
(* smallest unit, timestamps are day numbers (julianday), and a quotient   *)
(* is kept as the pair num/den.  Columns of a purchase that no query of    *)
(* operations.ts reads back (type, says, overallBasketSavings,             *)
(* basketValueNet, payment) are left out of the row.  An amounts row       *)
(* carries one history field that no statement reads: line, the submitted  *)
(* line item the row was inserted for.                                     *)
(*                                                                         *)
(* An entry point is an async function.  Where a claim is about one call   *)
(* as a whole the call is one action; where it is about what happens       *)
(* between the awaits of a call (SpecSteps) the call is a sequence of      *)
(* actions, pc is the call in flight (the await point it has reached, its  *)
(* arguments and the log of its effects outside the tables) and seen is    *)
(* what the latest query of another task read.                             *)
(***************************************************************************)
EXTENDS Integers, Sequences, FiniteSets, TLC

VARIABLES db, localStorage, last, work, pc, seen

vars == <<db, localStorage, last, work, pc, seen>>

\* SQL NULL / JavaScript null: a value outside every column's range.
NULL == -1

----------------------------------------------------------------------------
(* Bounds of the explored inputs.                                          *)

\* Purchases and line items imported, and other calls made, per behaviour of
\* Spec.
MaxWork == 5
\* The same for SpecCase.
CaseMaxWork == 6
\* The same for SpecSteps, a query of the reader counted as a call.
StepsMaxWork == 4
\* The same for SpecStats.
StatsMaxWork == 5
\* Line items per purchase in SpecStats and SpecCadence.
StatsMaxItems == 2
\* Purchases and line items imported per behaviour of SpecCadence.
CadenceMaxWork == 7
\* Calls made per behaviour of SpecCombined.
CombinedMaxWork == 3
\* Calls made per behaviour of SpecUpdate.
UpdateMaxWork == 3
\* Largest excludeTopN asked of the days-between-purchases queries.
MaxExclude == 2

----------------------------------------------------------------------------
(* Generic helpers.                                                        *)

EmptyMap == [k \in {} |-> 0]

Has(m, k) == k \in DOMAIN m

Put(m, k, v) == (k :> v) @@ m

Range(s) == {s[i] : i \in 1..Len(s)}

\* All sequences over S of length 0..n.
SeqsUpTo(S, n) == UNION {[1..k -> S] : k \in 0..n}

RECURSIVE SumSet(_, _)
\* Sum of f[x] over the finite set S.
SumSet(S, f) ==
  IF S = {} THEN 0
  ELSE LET x == CHOOSE y \in S : TRUE IN f[x] + SumSet(S \ {x}, f)

\* SQL comparison a = b: never true when either side is NULL.
SqlEq(a, b) == a # NULL /\ b # NULL /\ a = b

\* String.prototype.toLowerCase on the item names in use.
toLowerCase(name) ==
  CASE name = "Milk"  -> "milk"
    [] name = "Bread" -> "bread"
    [] OTHER          -> name

\* SQLite LOWER(): folds the ASCII letters, as toLowerCase does on these names.
LOWER(name) ==
  CASE name = "Milk"  -> "milk"
    [] name = "Bread" -> "bread"
    [] OTHER          -> name

----------------------------------------------------------------------------
(* The store: createTables.                                                *)

createTables ==
  [purchases           |-> <<>>,
   items               |-> <<>>,
   prices              |-> <<>>,
   amounts             |-> <<>>,
   price_purchases     |-> <<>>,
   sqlite_sequence     |-> [purchases |-> 0, items |-> 0, prices |-> 0,
                            amounts |-> 0]]

\* The combined-item tables, created next to the five above.
createCombinedTables ==
  [combined_items      |-> <<>>,
   combined_item_links |-> <<>>,
   combined_sequence   |-> 0]

\* initDatabase on an empty localStorage: a fresh Database with the schema.
initDatabase == createTables @@ createCombinedTables

----------------------------------------------------------------------------
(* importPurchaseDataFromObject: the statements run inside the             *)
(* transaction.  Every operator takes the Database d and returns the       *)
(* Database after its statements; err marks a statement that threw.        *)

\* idx_purchases_unique: a conflict needs all three columns equal and non-NULL.
PurchaseConflict(d, p) ==
  \E i \in 1..Len(d.purchases) :
    /\ SqlEq(d.purchases[i].timestamp, p.timestamp)
    /\ SqlEq(d.purchases[i].numberOfItems, p.numberOfItems)
    /\ SqlEq(d.purchases[i].basketValueGross, p.basketValueGross)

\* A variant with OR REPLACE: the conflicting row is deleted and the new one
\* inserted under a fresh id.
InsertOrIgnorePurchase_replace(d, p) ==
  LET id == d.sqlite_sequence.purchases + 1
      kept == SelectSeq(d.purchases,
                        LAMBDA r : ~(/\ SqlEq(r.timestamp, p.timestamp)
                                     /\ SqlEq(r.numberOfItems, p.numberOfItems)
                                     /\ SqlEq(r.basketValueGross, p.basketValueGross)))
  IN [d EXCEPT !.purchases = Append(kept, [id |-> id,
                                           timestamp |-> p.timestamp,
                                           numberOfItems |-> p.numberOfItems,
                                           basketValueGross |-> p.basketValueGross]),
               !.sqlite_sequence.purchases = id]

\* One INSERT OR IGNORE INTO purchases.
InsertOrIgnorePurchase(d, p) ==
  IF PurchaseConflict(d, p) THEN d
  ELSE LET id == d.sqlite_sequence.purchases + 1
       IN [d EXCEPT !.purchases = Append(@, [id |-> id,
                                             timestamp |-> p.timestamp,
                                             numberOfItems |-> p.numberOfItems,
                                             basketValueGross |-> p.basketValueGross]),
                    !.sqlite_sequence.purchases = id]

RECURSIVE InsertPurchases(_, _, _)
\* insertMany of the purchase rows, in file order.
InsertPurchases(d, purchases, k) ==
  IF k > Len(purchases) THEN d
  ELSE InsertPurchases(InsertOrIgnorePurchase(d, purchases[k]), purchases, k + 1)

\* COUNT(*) FROM amounts WHERE purchaseId = id
AmountCount(d, id) ==
  Cardinality({i \in 1..Len(d.amounts) : d.amounts[i].purchaseId = id})

\* The ids of the purchase rows matching the natural key that have no amounts.
UnpopulatedPurchaseIds(d, p) ==
  SelectSeq([i \in 1..Len(d.purchases) |->
               IF /\ SqlEq(d.purchases[i].timestamp, p.timestamp)
                  /\ SqlEq(d.purchases[i].numberOfItems, p.numberOfItems)
                  /\ SqlEq(d.purchases[i].basketValueGross, p.basketValueGross)
                  /\ AmountCount(d, d.purchases[i].id) = 0
               THEN d.purchases[i].id ELSE 0],
            LAMBDA id : id # 0)

\* purchaseIds: for every submitted purchase the id to populate, or 0.
ResolvePurchaseIds(d, purchases) ==
  [k \in 1..Len(purchases) |->
     LET results == UnpopulatedPurchaseIds(d, purchases[k])
     IN IF Len(results) > 0 THEN results[1] ELSE 0]

\* SELECT id FROM items WHERE LOWER(name) = ?
SelectItemIdsByLowerName(d, lower) ==
  SelectSeq([i \in 1..Len(d.items) |->
               IF LOWER(d.items[i].name) = lower THEN d.items[i].id ELSE 0],
            LAMBDA id : id # 0)

RECURSIVE FirstPass(_, _, _, _, _)
\* First pass: find existing items and collect new ones.
FirstPass(d, items, k, itemNameToId, newItemParams) ==
  IF k > Len(items)
  THEN [itemNameToId |-> itemNameToId, newItemParams |-> newItemParams]
  ELSE LET itemNameLower == toLowerCase(items[k].name)
           existingItems == SelectItemIdsByLowerName(d, itemNameLower)
       IN IF Has(itemNameToId, itemNameLower)
          THEN FirstPass(d, items, k + 1, itemNameToId, newItemParams)
          ELSE IF Len(existingItems) > 0
          THEN FirstPass(d, items, k + 1,
                         Put(itemNameToId, itemNameLower, existingItems[1]),
                         newItemParams)
          ELSE FirstPass(d, items, k + 1, itemNameToId,
                         Append(newItemParams, items[k].name))

RECURSIVE InsertItems(_, _, _, _)
\* insertMany INSERT INTO items (name): name is UNIQUE, a repeated name throws.
InsertItems(d, names, k, ids) ==
  IF k > Len(names) THEN [db |-> d, ids |-> ids, err |-> FALSE]
  ELSE IF \E i \in 1..Len(d.items) : d.items[i].name = names[k]
  THEN [db |-> d, ids |-> ids, err |-> TRUE]
  ELSE LET id == d.sqlite_sequence.items + 1
       IN InsertItems([d EXCEPT !.items = Append(@, [id |-> id, name |-> names[k]]),
                                !.sqlite_sequence.items = id],
                      names, k + 1, Append(ids, id))

RECURSIVE MapNewItemIds(_, _, _, _, _)
\* Map new item IDs to names.  An index past the end of newItemIds reads
\* undefined, which the map stores as NULL.
MapNewItemIds(items, k, itemNameToId, newItemIds, newItemIndex) ==
  IF k > Len(items) THEN itemNameToId
  ELSE LET itemNameLower == toLowerCase(items[k].name)
       IN IF Has(itemNameToId, itemNameLower)
          THEN MapNewItemIds(items, k + 1, itemNameToId, newItemIds, newItemIndex)
          ELSE MapNewItemIds(items, k + 1,
                 Put(itemNameToId, itemNameLower,
                     IF newItemIndex <= Len(newItemIds)
                     THEN newItemIds[newItemIndex] ELSE NULL),
                 newItemIds, newItemIndex + 1)

\* itemNameToId.get(itemNameLower); NULL when absent or undefined.
GetItemId(itemNameToId, name) ==
  IF Has(itemNameToId, toLowerCase(name)) THEN itemNameToId[toLowerCase(name)]
  ELSE NULL

\* SELECT id FROM prices WHERE itemId = ? AND price = ?
SelectPriceIds(d, itemId, price) ==
  SelectSeq([i \in 1..Len(d.prices) |->
               IF SqlEq(d.prices[i].itemId, itemId) /\ SqlEq(d.prices[i].price, price)
               THEN d.prices[i].id ELSE 0],
            LAMBDA id : id # 0)

RECURSIVE SecondPass(_, _, _, _, _, _, _)
\* Second pass: find existing prices, collect new ones, build amount params.
SecondPass(d, purchaseId, items, k, itemNameToId, acc, priceKeyToId) ==
  IF k > Len(items)
  THEN [priceKeyToId |-> priceKeyToId, newPriceParams |-> acc.newPriceParams,
        amountParams |-> acc.amountParams]
  ELSE LET itemId == GetItemId(itemNameToId, items[k].name)
           priceKey == <<itemId, items[k].price>>
           existingPrices == SelectPriceIds(d, itemId, items[k].price)
           amount == [purchaseId |-> purchaseId, itemId |-> itemId,
                      weight |-> items[k].weight, volume |-> items[k].volume,
                      quantity |-> items[k].quantity, line |-> items[k]]
       IN IF itemId = NULL
          THEN SecondPass(d, purchaseId, items, k + 1, itemNameToId, acc, priceKeyToId)
          ELSE IF Has(priceKeyToId, priceKey)
          THEN SecondPass(d, purchaseId, items, k + 1, itemNameToId,
                          [acc EXCEPT !.amountParams = Append(@, amount)],
                          priceKeyToId)
          ELSE IF Len(existingPrices) > 0
          THEN SecondPass(d, purchaseId, items, k + 1, itemNameToId,
                          [acc EXCEPT !.amountParams = Append(@, amount)],
                          Put(priceKeyToId, priceKey, existingPrices[1]))
          ELSE SecondPass(d, purchaseId, items, k + 1, itemNameToId,
                          [newPriceParams |-> Append(acc.newPriceParams,
                                                     [itemId |-> itemId,
                                                      price |-> items[k].price]),
                           amountParams |-> Append(acc.amountParams, amount)],
                          priceKeyToId)

RECURSIVE InsertPrices(_, _, _, _)
\* insertMany INSERT INTO prices (itemId, price): no uniqueness constraint.
InsertPrices(d, params, k, ids) ==
  IF k > Len(params) THEN [db |-> d, ids |-> ids]
  ELSE LET id == d.sqlite_sequence.prices + 1
       IN InsertPrices([d EXCEPT !.prices = Append(@, [id |-> id,
                                                       itemId |-> params[k].itemId,
                                                       price |-> params[k].price]),
                                 !.sqlite_sequence.prices = id],
                       params, k + 1, Append(ids, id))

RECURSIVE MapNewPriceIds(_, _, _, _, _, _)
\* Map new price IDs.
MapNewPriceIds(items, k, itemNameToId, priceKeyToId, newPriceIds, newPriceIndex) ==
  IF k > Len(items) THEN priceKeyToId
  ELSE LET itemId == GetItemId(itemNameToId, items[k].name)
           priceKey == <<itemId, items[k].price>>
       IN IF itemId = NULL \/ Has(priceKeyToId, priceKey)
          THEN MapNewPriceIds(items, k + 1, itemNameToId, priceKeyToId,
                              newPriceIds, newPriceIndex)
          ELSE MapNewPriceIds(items, k + 1, itemNameToId,
                 Put(priceKeyToId, priceKey,
                     IF newPriceIndex <= Len(newPriceIds)
                     THEN newPriceIds[newPriceIndex] ELSE NULL),
                 newPriceIds, newPriceIndex + 1)

RECURSIVE BuildPricePurchaseParams(_, _, _, _, _, _)
\* Build price_purchases params: one per line item whose price id is known.
BuildPricePurchaseParams(purchaseId, items, k, itemNameToId, priceKeyToId, params) ==
  IF k > Len(items) THEN params
  ELSE LET itemId == GetItemId(itemNameToId, items[k].name)
           priceKey == <<itemId, items[k].price>>
           priceId == IF Has(priceKeyToId, priceKey) THEN priceKeyToId[priceKey]
                      ELSE NULL
       IN IF itemId = NULL \/ priceId = NULL
          THEN BuildPricePurchaseParams(purchaseId, items, k + 1, itemNameToId,
                                        priceKeyToId, params)
          ELSE BuildPricePurchaseParams(purchaseId, items, k + 1, itemNameToId,
                                        priceKeyToId,
                                        Append(params, [priceId |-> priceId,
                                                        purchaseId |-> purchaseId]))

RECURSIVE InsertPricePurchases(_, _, _)
\* insertMany INSERT OR IGNORE INTO price_purchases: the pair is the primary key.
InsertPricePurchases(d, params, k) ==
  IF k > Len(params) THEN d
  ELSE IF params[k] \in Range(d.price_purchases)
  THEN InsertPricePurchases(d, params, k + 1)
  ELSE InsertPricePurchases([d EXCEPT !.price_purchases = Append(@, params[k])],
                            params, k + 1)

RECURSIVE InsertAmounts(_, _, _)
\* insertMany INSERT INTO amounts: always a fresh row.
InsertAmounts(d, params, k) ==
  IF k > Len(params) THEN d
  ELSE LET id == d.sqlite_sequence.amounts + 1
       IN InsertAmounts([d EXCEPT !.amounts = Append(@, [id |-> id] @@ params[k]),
                                  !.sqlite_sequence.amounts = id],
                        params, k + 1)

\* The body of the per-purchase loop for a purchase that is to be populated.
PopulatePurchase(d, purchaseId, items) ==
  LET first == FirstPass(d, items, 1, EmptyMap, <<>>)
      inserted == InsertItems(d, first.newItemParams, 1, <<>>)
      itemNameToId == IF Len(first.newItemParams) > 0
                      THEN MapNewItemIds(items, 1, first.itemNameToId,
                                         inserted.ids, 1)
                      ELSE first.itemNameToId
      second == SecondPass(inserted.db, purchaseId, items, 1, itemNameToId,
                           [newPriceParams |-> <<>>, amountParams |-> <<>>],
                           EmptyMap)
      priced == InsertPrices(inserted.db, second.newPriceParams, 1, <<>>)
      priceKeyToId == IF Len(second.newPriceParams) > 0
                      THEN MapNewPriceIds(items, 1, itemNameToId,
                                          second.priceKeyToId, priced.ids, 1)
                      ELSE second.priceKeyToId
      pricePurchaseParams == BuildPricePurchaseParams(purchaseId, items, 1,
                                                      itemNameToId, priceKeyToId,
                                                      <<>>)
      linked == InsertPricePurchases(priced.db, pricePurchaseParams, 1)
  IN IF inserted.err THEN [db |-> inserted.db, err |-> TRUE]
     ELSE [db |-> InsertAmounts(linked, second.amountParams, 1), err |-> FALSE]

RECURSIVE PopulatePurchases(_, _, _, _)
\* For each purchase, check if it has items connected, if not add them.
PopulatePurchases(d, purchases, purchaseIds, purchaseIndex) ==
  IF purchaseIndex > Len(purchases) THEN [db |-> d, err |-> FALSE]
  ELSE IF purchaseIds[purchaseIndex] = 0 \/ Len(purchases[purchaseIndex].items) = 0
  THEN PopulatePurchases(d, purchases, purchaseIds, purchaseIndex + 1)
  ELSE LET r == PopulatePurchase(d, purchaseIds[purchaseIndex],
                                 purchases[purchaseIndex].items)
       IN IF r.err THEN r
          ELSE PopulatePurchases(r.db, purchases, purchaseIds, purchaseIndex + 1)

\* The operations callback handed to runInTransaction by the import.
importOperations(d, purchases) ==
  LET inserted == InsertPurchases(d, purchases, 1)
  IN PopulatePurchases(inserted, purchases,
                       ResolvePurchaseIds(inserted, purchases), 1)

----------------------------------------------------------------------------
(* Analytics queries: pure reads of the Database d.                        *)

\* COALESCE(a.volume, a.quantity)
trueQuantity(a) == IF a.volume # NULL THEN a.volume ELSE a.quantity

\* The prices row with the given id (id is the primary key).
PriceRow(d, id) == CHOOSE p \in Range(d.prices) : p.id = id

\* The purchases row with the given id.
PurchaseRow(d, id) == CHOOSE p \in Range(d.purchases) : p.id = id

\* price_purchases pp JOIN prices p ON pp.priceId = p.id
\* JOIN purchases pur ON pp.purchaseId = pur.id WHERE p.itemId = itemId:
\* the positions of the link rows that survive both joins.
ItemLinks(d, itemId) ==
  {k \in 1..Len(d.price_purchases) :
     /\ \E p \in Range(d.prices) :
          p.id = d.price_purchases[k].priceId /\ p.itemId = itemId
     /\ \E pur \in Range(d.purchases) : pur.id = d.price_purchases[k].purchaseId}

\* LEFT JOIN amounts a ON a.purchaseId = pur.id AND a.itemId = itemId, for
\* link row k: the matching amounts rows, or the single all-NULL row (0).
JoinedAmounts(d, k, itemId) ==
  LET match == {a \in 1..Len(d.amounts) :
                  /\ d.amounts[a].purchaseId = d.price_purchases[k].purchaseId
                  /\ d.amounts[a].itemId = itemId}
  IN IF match = {} THEN {0} ELSE match

\* The rows of the join that getItemsWithStats, getItemWithStats and
\* getItemPurchaseHistory aggregate for one item: <<link row, amounts row>>.
JoinRows(d, itemId) ==
  UNION {{<<k, a>> : a \in JoinedAmounts(d, k, itemId)} : k \in ItemLinks(d, itemId)}

\* SUM(COALESCE(a.volume, a.quantity)) with the outer COALESCE(..., 0).
totalQuantity(d, itemId) ==
  LET rows == {r \in JoinRows(d, itemId) : r[2] # 0}
  IN SumSet(rows, [r \in rows |-> trueQuantity(d.amounts[r[2]])])

\* SUM(p.price * COALESCE(a.volume, a.quantity)) with the outer COALESCE(..., 0).
totalSpent(d, itemId) ==
  LET rows == {r \in JoinRows(d, itemId) : r[2] # 0}
  IN SumSet(rows, [r \in rows |->
                     PriceRow(d, d.price_purchases[r[1]].priceId).price *
                     trueQuantity(d.amounts[r[2]])])

\* The latestPrice subquery: ORDER BY pur2.timestamp DESC LIMIT 1.  Rows that
\* tie on the timestamp come in an order SQL leaves open: every price of a
\* row with the greatest timestamp is a possible result; NULL without rows.
latestPrice(d, itemId) ==
  LET links == ItemLinks(d, itemId)
      ts(k) == PurchaseRow(d, d.price_purchases[k].purchaseId).timestamp
      top == {k \in links : \A j \in links : ts(j) <= ts(k)}
  IN IF links = {} THEN {NULL}
     ELSE {PriceRow(d, d.price_purchases[k].priceId).price : k \in top}

\* getItemsWithStats with the default (empty) search: one entry per items row.
\* The result set of entries that the query can return, the order left out.
getItemsWithStats(d) ==
  {e \in [id : {i.id : i \in Range(d.items)},
          name : {i.name : i \in Range(d.items)},
          totalQuantity : {totalQuantity(d, i.id) : i \in Range(d.items)},
          totalSpent : {totalSpent(d, i.id) : i \in Range(d.items)},
          latestPrice : UNION {latestPrice(d, i.id) : i \in Range(d.items)}] :
     /\ \E i \in Range(d.items) : i.id = e.id /\ i.name = e.name
     /\ e.totalQuantity = totalQuantity(d, e.id)
     /\ e.totalSpent = totalSpent(d, e.id)
     /\ e.latestPrice \in latestPrice(d, e.id)}

\* getItemWithStats: the entry in a set, {} (undefined) when the item does
\* not exist.
getItemWithStats(d, itemId) ==
  IF \A i \in Range(d.items) : i.id # itemId THEN {}
  ELSE {[id |-> itemId,
         totalQuantity |-> totalQuantity(d, itemId),
         totalSpent |-> totalSpent(d, itemId)]}

\* One row of getItemPurchaseHistory, from join row r.  The fields link and
\* amount keep rows of equal content apart (the result is a list, not a set).
HistoryRow(d, r) ==
  LET price == PriceRow(d, d.price_purchases[r[1]].priceId).price
      tq == IF r[2] = 0 THEN NULL ELSE trueQuantity(d.amounts[r[2]])
  IN [link |-> r[1], amount |-> r[2],
      timestamp |-> PurchaseRow(d, d.price_purchases[r[1]].purchaseId).timestamp,
      price |-> price,
      weight |-> IF r[2] = 0 THEN NULL ELSE d.amounts[r[2]].weight,
      volume |-> IF r[2] = 0 THEN NULL ELSE d.amounts[r[2]].volume,
      trueQuantity |-> tq,
      cost |-> IF tq # NULL /\ tq # 1 /\ tq > 0 THEN price * tq ELSE NULL]

RECURSIVE DescendingOrders(_)
\* Every listing of the rows S by timestamp, newest first (ORDER BY
\* pur.timestamp DESC): rows of equal timestamp in any order.
DescendingOrders(S) ==
  IF S = {} THEN {<<>>}
  ELSE UNION {{<<x>> \o rest : rest \in DescendingOrders(S \ {x})} :
              x \in {y \in S : \A z \in S : z.timestamp <= y.timestamp}}

\* getItemPurchaseHistory: the lists the query can return.
getItemPurchaseHistory(d, itemId) ==
  DescendingOrders({HistoryRow(d, r) : r \in JoinRows(d, itemId)})

RECURSIVE SortLinksByTimestamp(_, _)
\* The link rows S in the order of the window ORDER BY pur.timestamp.
SortLinksByTimestamp(d, S) ==
  IF S = {} THEN <<>>
  ELSE LET ts(k) == PurchaseRow(d, d.price_purchases[k].purchaseId).timestamp
           k == CHOOSE x \in S :
                  \A y \in S : ts(x) < ts(y) \/ (ts(x) = ts(y) /\ x <= y)
       IN <<k>> \o SortLinksByTimestamp(d, S \ {k})

\* The CTE purchase_days: one row per link row of the item, with the days since
\* the row before it (LAG); julianday of a day number is the number itself.
purchase_days(d, itemId) ==
  LET order == SortLinksByTimestamp(d, ItemLinks(d, itemId))
      ts(k) == PurchaseRow(d, d.price_purchases[order[k]].purchaseId).timestamp
  IN [k \in 1..Len(order) |->
        [timestamp |-> ts(k),
         daysSinceLastPurchase |-> IF k = 1 THEN NULL ELSE ts(k) - ts(k - 1)]]

\* The CTE ranked_purchases: ROW_NUMBER over daysSinceLastPurchase DESC of the
\* rows that have one; rank_order[k] is the rank of purchase_days row k (0: not
\* ranked).  Rows of equal days are ranked in row order.
rank_order(pd) ==
  [k \in 1..Len(pd) |->
     IF pd[k].daysSinceLastPurchase = NULL THEN 0
     ELSE 1 + Cardinality({j \in 1..Len(pd) :
                /\ pd[j].daysSinceLastPurchase # NULL
                /\ \/ pd[j].daysSinceLastPurchase > pd[k].daysSinceLastPurchase
                   \/ /\ pd[j].daysSinceLastPurchase = pd[k].daysSinceLastPurchase
                      /\ j < k})]

\* The number of rows that purchase_days row k has in the CTE
\* filtered_purchases: the LEFT JOIN pairs it with every ranked row of the same
\* timestamp and days, and the WHERE keeps the pairs ranked past excludeTopN.
FilteredCount(pd, k, excludeTopN) ==
  IF pd[k].daysSinceLastPurchase = NULL THEN 1
  ELSE Cardinality({j \in 1..Len(pd) :
         /\ pd[j].daysSinceLastPurchase # NULL
         /\ pd[j].timestamp = pd[k].timestamp
         /\ pd[j].daysSinceLastPurchase = pd[k].daysSinceLastPurchase
         /\ rank_order(pd)[j] > excludeTopN})

RECURSIVE filtered_purchases(_, _, _)
\* The CTE filtered_purchases from row k on, ORDER BY timestamp ASC.
filtered_purchases(pd, k, excludeTopN) ==
  IF k > Len(pd) THEN <<>>
  ELSE [n \in 1..FilteredCount(pd, k, excludeTopN) |-> pd[k]]
       \o filtered_purchases(pd, k + 1, excludeTopN)

\* AVG(daysSinceLastPurchase) over the rows that have one: the quotient
\* num/den in a set, {} for NULL.
AverageDays(rows) ==
  LET with == {k \in 1..Len(rows) : rows[k].daysSinceLastPurchase # NULL}
  IN IF with = {} THEN {}
     ELSE {[num |-> SumSet(with, [k \in with |-> rows[k].daysSinceLastPurchase]),
            den |-> Cardinality(with)]}

\* getDaysBetweenPurchasesData: averageDays is {} for null.
getDaysBetweenPurchasesData(d, itemId, excludeTopN) ==
  LET result == filtered_purchases(purchase_days(d, itemId), 1, excludeTopN)
  IN [data |-> result,
      averageDays |-> IF Len(result) > 0 THEN AverageDays(result) ELSE {}]

----------------------------------------------------------------------------
(* Combined items.                                                         *)

\* Array.from(new Set(itemIds)): first occurrences, in order.
RECURSIVE uniqueItemIds(_)
uniqueItemIds(itemIds) ==
  IF Len(itemIds) = 0 THEN <<>>
  ELSE LET front == uniqueItemIds(SubSeq(itemIds, 1, Len(itemIds) - 1))
           x == itemIds[Len(itemIds)]
       IN IF x \in Range(front) THEN front ELSE Append(front, x)

\* String.prototype.trim on the names in use.
trim(name) ==
  CASE name = " "        -> ""
    [] name = " Dairy"   -> "Dairy"
    [] name = " Cheese " -> "Cheese"
    [] name = " Bread"   -> "Bread"
    [] OTHER             -> name

\* A variant of createCombinedItemValid that lets every call through.
createCombinedItemValid_unchecked(name, itemIds) == TRUE

\* createCombinedItem's check before runInTransaction.
createCombinedItemValid(name, itemIds) == Len(itemIds) # 0

\* A variant of updateCombinedItemValid that checks the name only.
updateCombinedItemValid_nameOnly(name, itemIds) == trim(name) # ""

\* updateCombinedItem's checks before runInTransaction.
updateCombinedItemValid(name, itemIds) ==
  Len(uniqueItemIds(itemIds)) # 0 /\ trim(name) # ""

\* INSERT INTO combined_item_links, one row per id.
InsertLinks(d, combinedItemId, itemIds) ==
  [d EXCEPT !.combined_item_links =
     @ \o [k \in 1..Len(itemIds) |->
             [combinedItemId |-> combinedItemId, itemId |-> itemIds[k]]]]

\* The statements of createCombinedItem's transaction.
createCombinedItemOperations(d, name, itemIds) ==
  LET id == d.combined_sequence + 1
  IN InsertLinks([d EXCEPT !.combined_items = Append(@, [id |-> id, name |-> name]),
                           !.combined_sequence = id],
                 id, itemIds)

\* DELETE FROM combined_item_links WHERE combinedItemId = ?
DeleteLinks(d, combinedItemId) ==
  [d EXCEPT !.combined_item_links =
     SelectSeq(@, LAMBDA l : l.combinedItemId # combinedItemId)]

\* The statements of deleteCombinedItem's transaction.
deleteCombinedItemOperations(d, combinedItemId) ==
  [DeleteLinks(d, combinedItemId) EXCEPT !.combined_items =
     SelectSeq(@, LAMBDA c : c.id # combinedItemId)]

\* The statements of updateCombinedItem's transaction.
updateCombinedItemOperations(d, combinedItemId, name, itemIds) ==
  LET renamed == [d EXCEPT !.combined_items =
                    [k \in 1..Len(@) |->
                       IF @[k].id = combinedItemId
                       THEN [@[k] EXCEPT !.name = trim(name)] ELSE @[k]]]
  IN InsertLinks(DeleteLinks(renamed, combinedItemId), combinedItemId,
                 uniqueItemIds(itemIds))

RECURSIVE SortAscending(_)
\* The numbers of the list s in ascending order, repetitions kept.
SortAscending(s) ==
  IF Len(s) = 0 THEN <<>>
  ELSE LET k == CHOOSE x \in 1..Len(s) :
                  \A y \in 1..Len(s) : s[x] < s[y] \/ (s[x] = s[y] /\ x <= y)
       IN <<s[k]>> \o SortAscending(SubSeq(s, 1, k - 1) \o SubSeq(s, k + 1, Len(s)))

\* getCombinedItemLinkIds: SELECT itemId ... ORDER BY itemId.
getCombinedItemLinkIds(d, combinedItemId) ==
  SortAscending([k \in 1..Len(SelectSeq(d.combined_item_links,
                                         LAMBDA l : l.combinedItemId = combinedItemId)) |->
                   SelectSeq(d.combined_item_links,
                             LAMBDA l : l.combinedItemId = combinedItemId)[k].itemId])

RECURSIVE SumTotals(_, _, _, _)
\* The loop of getCombinedItemWithStats over itemIds: totals added up for the
\* items that exist.
SumTotals(d, itemIds, k, acc) ==
  IF k > Len(itemIds) THEN acc
  ELSE LET stats == getItemWithStats(d, itemIds[k])
           s == CHOOSE x \in stats : TRUE
       IN SumTotals(d, itemIds, k + 1,
                    IF stats = {} THEN acc
                    ELSE [totalQuantity |-> acc.totalQuantity + s.totalQuantity,
                          totalSpent |-> acc.totalSpent + s.totalSpent])

RECURSIVE ScanLatest_unordered(_, _, _)
\* A variant of ScanLatest that takes every row as the latest, whatever its
\* timestamp.
ScanLatest_unordered(history, k, latest) ==
  IF k > Len(history) THEN latest
  ELSE ScanLatest_unordered(history, k + 1,
         [latestTimestamp |-> history[k].timestamp,
          latestPrice |-> history[k].price])

RECURSIVE ScanLatest(_, _, _)
\* The inner loop over one history: keep the row of the greatest timestamp,
\* the first one met among equals.
ScanLatest(history, k, latest) ==
  IF k > Len(history) THEN latest
  ELSE ScanLatest(history, k + 1,
         IF latest.latestTimestamp = NULL
            \/ history[k].timestamp > latest.latestTimestamp
         THEN [latestTimestamp |-> history[k].timestamp,
               latestPrice |-> history[k].price]
         ELSE latest)

RECURSIVE LatestOutcomes(_, _, _, _)
\* latestPrice after the loop over itemIds, for every list each
\* getItemPurchaseHistory call can return.
LatestOutcomes(d, itemIds, k, latest) ==
  IF k > Len(itemIds) THEN {latest.latestPrice}
  ELSE UNION {LatestOutcomes(d, itemIds, k + 1, ScanLatest(h, 1, latest)) :
              h \in getItemPurchaseHistory(d, itemIds[k])}

\* getCombinedItemWithStats: the results it can return; {} stands for undefined.
getCombinedItemWithStats(d, combinedItemId) ==
  LET itemIds == getCombinedItemLinkIds(d, combinedItemId)
      totals == SumTotals(d, itemIds, 1, [totalQuantity |-> 0, totalSpent |-> 0])
  IN IF \A c \in Range(d.combined_items) : c.id # combinedItemId THEN {}
     ELSE IF Len(itemIds) = 0
     THEN {[id |-> combinedItemId, latestPrice |-> NULL, totalQuantity |-> 0,
            totalSpent |-> 0]}
     ELSE {[id |-> combinedItemId, latestPrice |-> lp,
            totalQuantity |-> totals.totalQuantity,
            totalSpent |-> totals.totalSpent] :
           lp \in LatestOutcomes(d, itemIds, 1,
                                 [latestTimestamp |-> NULL, latestPrice |-> NULL])}

RECURSIVE StableSort(_, _)
\* Array.prototype.sort (stable) of the list s, ascending in the numbers
\* key[k] given for its elements.
StableSort(s, key) ==
  IF Len(s) = 0 THEN <<>>
  ELSE LET k == CHOOSE x \in 1..Len(s) :
                  \A y \in 1..Len(s) : key[x] < key[y] \/ (key[x] = key[y] /\ x <= y)
           drop(t) == SubSeq(t, 1, k - 1) \o SubSeq(t, k + 1, Len(t))
       IN <<s[k]>> \o StableSort(drop(s), drop(key))

RECURSIVE ConcatHistories(_, _, _)
\* The lists "all" can hold after the loop: the histories of the linked items,
\* one after the other.
ConcatHistories(d, itemIds, k) ==
  IF k > Len(itemIds) THEN {<<>>}
  ELSE {h \o rest : h \in getItemPurchaseHistory(d, itemIds[k]),
                    rest \in ConcatHistories(d, itemIds, k + 1)}

\* getCombinedItemPurchaseHistory: merged, newest first.
getCombinedItemPurchaseHistory(d, combinedItemId) ==
  {StableSort(all, [k \in 1..Len(all) |-> 0 - all[k].timestamp]) :
   all \in ConcatHistories(d, getCombinedItemLinkIds(d, combinedItemId), 1)}

\* JavaScript arithmetic on a value that may be null.
Num(x) == IF x = NULL THEN 0 ELSE x

RECURSIVE GroupByTimestamp(_, _, _)
\* The Map byTimestamp after the loop over the history, in insertion order.
GroupByTimestamp(history, k, byTimestamp) ==
  IF k > Len(history) THEN byTimestamp
  ELSE LET qty == history[k].trueQuantity
           weighted == history[k].price * Num(qty)
           at == {j \in 1..Len(byTimestamp) :
                    byTimestamp[j].timestamp = history[k].timestamp}
       IN IF at # {}
          THEN GroupByTimestamp(history, k + 1,
                 [j \in 1..Len(byTimestamp) |->
                    IF j \in at
                    THEN [timestamp |-> byTimestamp[j].timestamp,
                          totalQty |-> Num(byTimestamp[j].totalQty) + Num(qty),
                          weightedSum |-> byTimestamp[j].weightedSum + weighted]
                    ELSE byTimestamp[j]])
          ELSE GroupByTimestamp(history, k + 1,
                 Append(byTimestamp, [timestamp |-> history[k].timestamp,
                                      totalQty |-> qty,
                                      weightedSum |-> weighted]))

\* A variant of ChartPoints whose price is the plain mean of the prices at a
\* timestamp, the quantities left out.
ChartPoints_unweighted(history) ==
  LET byTimestamp == GroupByTimestamp(history, 1, <<>>)
      points == [j \in 1..Len(byTimestamp) |->
                   LET rows == {k \in 1..Len(history) :
                                  history[k].timestamp = byTimestamp[j].timestamp}
                   IN [timestamp |-> byTimestamp[j].timestamp,
                       date |-> byTimestamp[j].timestamp,
                       price |-> [num |-> SumSet(rows, [k \in rows |-> history[k].price]),
                                  den |-> Cardinality(rows)],
                       quantityBought |-> byTimestamp[j].totalQty]]
  IN StableSort(points, [j \in 1..Len(points) |-> points[j].date])

\* The chart points of one merged history: price is the quotient
\* weightedSum / totalQty kept as num/den, or 0 when totalQty is not positive.
ChartPoints(history) ==
  LET byTimestamp == GroupByTimestamp(history, 1, <<>>)
      points == [j \in 1..Len(byTimestamp) |->
                   [timestamp |-> byTimestamp[j].timestamp,
                    date |-> byTimestamp[j].timestamp,
                    price |-> IF Num(byTimestamp[j].totalQty) > 0
                              THEN [num |-> byTimestamp[j].weightedSum,
                                    den |-> byTimestamp[j].totalQty]
                              ELSE [num |-> 0, den |-> 1],
                    quantityBought |-> byTimestamp[j].totalQty]]
  IN StableSort(points, [j \in 1..Len(points) |-> points[j].date])

\* getCombinedItemChartData: the lists of points it can return.
getCombinedItemChartData(d, combinedItemId) ==
  {ChartPoints(history) : history \in getCombinedItemPurchaseHistory(d, combinedItemId)}

RECURSIVE SortedSet(_)
\* [...new Set(timestamps)].sort(): the distinct values, ascending.
SortedSet(S) ==
  IF S = {} THEN <<>>
  ELSE LET x == CHOOSE y \in S : \A z \in S : y <= z
       IN <<x>> \o SortedSet(S \ {x})

\* getCombinedItemDaysBetweenPurchasesData: the distinct timestamps of the
\* merged history, the days between consecutive ones, the points sorted by
\* days descending (null as 0), those with days kept, the first excludeTopN
\* sliced off, the rest averaged and returned in date order.  averageDays is
\* {} for null.
getCombinedItemDaysBetweenPurchasesData(d, combinedItemId, excludeTopN) ==
  LET history == CHOOSE h \in getCombinedItemPurchaseHistory(d, combinedItemId) : TRUE
      timestamps == SortedSet({history[k].timestamp : k \in 1..Len(history)})
      daysBetween ==
        [i \in 1..Len(timestamps) |->
           [timestamp |-> timestamps[i],
            daysSinceLastPurchase |->
              IF i > 1 THEN timestamps[i] - timestamps[i - 1] ELSE NULL]]
      daysBetweenSorted ==
        StableSort(daysBetween,
                   [i \in 1..Len(daysBetween) |->
                      0 - Num(daysBetween[i].daysSinceLastPurchase)])
      withDays == SelectSeq(daysBetweenSorted,
                            LAMBDA x : x.daysSinceLastPurchase # NULL)
      excluded == SubSeq(withDays, excludeTopN + 1, Len(withDays))
  IN IF Len(timestamps) = 0 THEN [data |-> <<>>, averageDays |-> {}]
     ELSE [data |-> StableSort(excluded,
                               [k \in 1..Len(excluded) |-> excluded[k].timestamp]),
           averageDays |-> AverageDays(excluded)]

----------------------------------------------------------------------------
(* The transaction boundary and the entry points.                          *)

\* runInTransaction: r is what the operations callback did to the Database d
\* (r.err: it threw).  BEGIN; operations; COMMIT; saveDatabase; and in the catch
\* ROLLBACK only while the transaction is open.  saveFails: localStorage.setItem
\* throws (the quota is exceeded), which is after the COMMIT.
\* error names what was thrown: "constraint" by a statement of the operations,
\* "quota" by saveDatabase, "none".
runInTransaction(d, stored, r, saveFails) ==
  IF r.err
  THEN [db |-> d, localStorage |-> stored, threw |-> TRUE, error |-> "constraint"]
  ELSE IF saveFails
  THEN [db |-> r.db, localStorage |-> stored, threw |-> TRUE, error |-> "quota"]
  ELSE [db |-> r.db, localStorage |-> r.db, threw |-> FALSE, error |-> "none"]

\* clearDatabase: DROP the five tables, createTables again.
clearDatabase_keepAmounts(d) == [createTables @@ d EXCEPT !.amounts = d.amounts]

clearDatabase(d) == createTables @@ d

Init ==
  /\ db = initDatabase
  /\ localStorage = initDatabase
  /\ last = [op |-> "init"]
  /\ work = 0
  /\ pc = [at |-> "idle"]
  /\ seen = [at |-> "none", db |-> initDatabase]

\* importPurchaseDataFromObject(data): the transaction, then the db-update
\* event and {success: true}; any throw is caught and returned as
\* {success: false, error}.
importPurchaseDataFromObject(purchases, saveFails) ==
  LET t == runInTransaction(db, localStorage, importOperations(db, purchases),
                            saveFails)
  IN /\ db' = t.db
     /\ localStorage' = t.localStorage
     /\ last' = [op |-> "import", purchases |-> purchases,
                 outcome |-> IF t.threw THEN "failure" ELSE "success",
                 error |-> t.error,
                 accessed |-> TRUE,
                 events |-> IF t.threw THEN 0 ELSE 1]
     /\ UNCHANGED <<pc, seen>>

\* The spreadsheet import.  A row is the cells the parser reads: date (an Excel
\* serial day, NULL for an empty cell), time (seconds of the day, the Excel
\* fraction times 86400; NULL for an empty cell), itemName ("" for an empty
\* cell), quantity, unitPrice, cost and discount.
SecondsPerDay == 86400

\* The date with the time set on it, as one timestamp.
CombinedTimestamp(row) ==
  row.date * SecondsPerDay + (IF row.time = NULL THEN 0 ELSE row.time)

\* discount != 0 ? cost / quantity : unitPrice.  The inputs keep the quotient
\* whole.
EffectivePrice(row) ==
  IF row.discount # 0 THEN row.cost \div row.quantity ELSE row.unitPrice

\* The rows the parser does not skip: date and item name present, unit price
\* and quantity not null, price >= 0 and quantity > 0.
Accepted(row) ==
  /\ row.date # NULL /\ row.date # 0
  /\ row.itemName # ""
  /\ row.unitPrice # NULL
  /\ row.quantity # NULL
  /\ row.quantity > 0
  /\ EffectivePrice(row) >= 0

\* cost / unitPrice when quantity == 1 and the unit price is neither the cost
\* nor the cost plus the discount; used as weight and volume when positive,
\* else both are 0.
WeightVolume(row) ==
  LET weightVolumeValue ==
        IF /\ row.quantity = 1
           /\ row.unitPrice # row.cost
           /\ row.unitPrice # row.cost + row.discount
        THEN row.cost \div row.unitPrice
        ELSE NULL
  IN IF weightVolumeValue # NULL /\ weightVolumeValue > 0
     THEN weightVolumeValue ELSE 0

RECURSIVE ParseRows(_, _, _)
\* The loop over the data rows: purchasesMap, in insertion order, gets a new
\* empty purchase for a timestamp it does not have, and the row's line item is
\* pushed onto the purchase of its timestamp.
ParseRows(rows, i, purchasesMap) ==
  IF i > Len(rows) THEN purchasesMap
  ELSE IF ~Accepted(rows[i]) THEN ParseRows(rows, i + 1, purchasesMap)
  ELSE LET timestamp == CombinedTimestamp(rows[i])
           has == \E k \in 1..Len(purchasesMap) :
                    purchasesMap[k].timestamp = timestamp
           map == IF has THEN purchasesMap
                  ELSE Append(purchasesMap,
                              [timestamp |-> timestamp, basketValueGross |-> 0,
                               basketValueNet |-> 0, numberOfItems |-> 0,
                               items |-> <<>>])
           item == [name |-> trim(rows[i].itemName),
                    quantity |-> rows[i].quantity,
                    weight |-> WeightVolume(rows[i]),
                    price |-> EffectivePrice(rows[i]),
                    volume |-> WeightVolume(rows[i])]
       IN ParseRows(rows, i + 1,
                    [k \in 1..Len(map) |->
                       IF map[k].timestamp = timestamp
                       THEN [map[k] EXCEPT !.items = Append(@, item)]
                       ELSE map[k]])

RECURSIVE ReduceGross(_, _)
\* items.reduce((sum, item) => sum + item.price * item.quantity, 0), from the
\* k-th item on.
ReduceGross(items, k) ==
  IF k > Len(items) THEN 0
  ELSE items[k].price * items[k].quantity + ReduceGross(items, k + 1)

RECURSIVE ReduceQuantity(_, _)
\* The sum of the quantities from the k-th item on.
ReduceQuantity(items, k) ==
  IF k > Len(items) THEN 0
  ELSE items[k].quantity + ReduceQuantity(items, k + 1)

\* A variant of CalculateTotals that counts units, not line items.
CalculateTotals_units(purchasesMap) ==
  [k \in 1..Len(purchasesMap) |->
     LET basketValueGross == ReduceGross(purchasesMap[k].items, 1)
     IN [purchasesMap[k] EXCEPT !.basketValueGross = basketValueGross,
                                !.basketValueNet = basketValueGross,
                                !.numberOfItems =
                                   ReduceQuantity(purchasesMap[k].items, 1)]]

\* The totals of each grouped purchase.
CalculateTotals(purchasesMap) ==
  [k \in 1..Len(purchasesMap) |->
     LET basketValueGross == ReduceGross(purchasesMap[k].items, 1)
     IN [purchasesMap[k] EXCEPT !.basketValueGross = basketValueGross,
                                !.basketValueNet = basketValueGross,
                                !.numberOfItems = Len(purchasesMap[k].items)]]

\* importPurchaseDataFromXLSX(file): a workbook without the sheet, or a sheet
\* without the header row, is a failure result; else the rows are parsed and
\* grouped and the purchases go to importPurchaseDataFromObject.
importPurchaseDataFromXLSX(file, saveFails) ==
  LET purchases == CalculateTotals(ParseRows(file.rows, 1, <<>>))
      t == runInTransaction(db, localStorage, importOperations(db, purchases),
                            saveFails)
  IN IF ~file.hasSheet \/ file.headerRowIndex = -1
     THEN /\ UNCHANGED <<db, localStorage, pc, seen>>
          /\ last' = [op |-> "importXLSX", file |-> file, purchases |-> <<>>,
                      outcome |-> "failure", error |-> "parse",
                      accessed |-> FALSE, events |-> 0]
     ELSE /\ db' = t.db
          /\ localStorage' = t.localStorage
          /\ last' = [op |-> "importXLSX", file |-> file,
                      purchases |-> purchases,
                      outcome |-> IF t.threw THEN "failure" ELSE "success",
                      error |-> t.error,
                      accessed |-> TRUE,
                      events |-> IF t.threw THEN 0 ELSE 1]
          /\ UNCHANGED <<pc, seen>>

\* clearAllData(): clearDatabase and saveDatabase outside any transaction, then
\* the db-update event.
clearAllData(saveFails) ==
  /\ db' = clearDatabase(db)
  /\ localStorage' = IF saveFails THEN localStorage ELSE clearDatabase(db)
  /\ last' = [op |-> "clearAll",
              outcome |-> IF saveFails THEN "failure" ELSE "success",
              accessed |-> TRUE,
              events |-> IF saveFails THEN 0 ELSE 1]
  /\ UNCHANGED <<pc, seen>>

\* createCombinedItem(name, itemIds)
createCombinedItem(name, itemIds, saveFails) ==
  LET t == runInTransaction(db, localStorage,
             [db |-> createCombinedItemOperations(db, name, itemIds),
              err |-> FALSE], saveFails)
  IN IF ~createCombinedItemValid(name, itemIds)
     THEN /\ UNCHANGED <<db, localStorage, pc, seen>>
          /\ last' = [op |-> "create", name |-> name, itemIds |-> itemIds,
                      outcome |-> "threw", accessed |-> FALSE, events |-> 0]
     ELSE /\ db' = t.db
          /\ localStorage' = t.localStorage
          /\ last' = [op |-> "create", name |-> name, itemIds |-> itemIds,
                      outcome |-> IF t.threw THEN "threw" ELSE "returned",
                      accessed |-> TRUE, events |-> 0]
          /\ UNCHANGED <<pc, seen>>

\* updateCombinedItem(combinedItemId, name, itemIds)
updateCombinedItem(combinedItemId, name, itemIds, saveFails) ==
  LET t == runInTransaction(db, localStorage,
             [db |-> updateCombinedItemOperations(db, combinedItemId, name, itemIds),
              err |-> FALSE], saveFails)
  IN IF ~updateCombinedItemValid(name, itemIds)
     THEN /\ UNCHANGED <<db, localStorage, pc, seen>>
          /\ last' = [op |-> "update", id |-> combinedItemId, name |-> name,
                      itemIds |-> itemIds,
                      outcome |-> "threw", accessed |-> FALSE, events |-> 0]
     ELSE /\ db' = t.db
          /\ localStorage' = t.localStorage
          /\ last' = [op |-> "update", id |-> combinedItemId, name |-> name,
                      itemIds |-> itemIds,
                      outcome |-> IF t.threw THEN "threw" ELSE "returned",
                      accessed |-> TRUE, events |-> 0]
          /\ UNCHANGED <<pc, seen>>

\* The Database when the statements of updateCombinedItem's transaction have
\* run up to the one that throws: 1 the UPDATE, 2 the DELETE, 3 the INSERT of
\* the links, 0 none.
updateCombinedItemUpTo(d, combinedItemId, name, itemIds, failing) ==
  LET updated == updateCombinedItemOperations(d, combinedItemId, name, itemIds)
      renamed == [d EXCEPT !.combined_items = updated.combined_items]
  IN CASE failing = 0 -> updated
       [] failing = 1 -> d
       [] failing = 2 -> renamed
       [] failing = 3 -> DeleteLinks(renamed, combinedItemId)

\* updateCombinedItem(combinedItemId, name, itemIds) in a store where a
\* statement of the transaction or the save can throw.
updateCombinedItemThrowing(combinedItemId, name, itemIds, failing, saveFails) ==
  LET t == runInTransaction(db, localStorage,
             [db |-> updateCombinedItemUpTo(db, combinedItemId, name, itemIds,
                                            failing),
              err |-> failing # 0], saveFails)
      valid == updateCombinedItemValid(name, itemIds)
  IN /\ db' = IF valid THEN t.db ELSE db
     /\ localStorage' = IF valid THEN t.localStorage ELSE localStorage
     /\ last' = [op |-> "update", id |-> combinedItemId, name |-> name,
                 itemIds |-> itemIds,
                 outcome |-> IF valid /\ ~t.threw THEN "returned" ELSE "threw",
                 error |-> IF valid THEN t.error ELSE "validation",
                 accessed |-> valid, events |-> 0]
     /\ UNCHANGED <<pc, seen>>

\* deleteCombinedItem(combinedItemId)
deleteCombinedItem(combinedItemId, saveFails) ==
  LET t == runInTransaction(db, localStorage,
             [db |-> deleteCombinedItemOperations(db, combinedItemId),
              err |-> FALSE], saveFails)
  IN /\ db' = t.db
     /\ localStorage' = t.localStorage
     /\ last' = [op |-> "delete", id |-> combinedItemId,
                 outcome |-> IF t.threw THEN "threw" ELSE "returned",
                 accessed |-> TRUE, events |-> 0]
     /\ UNCHANGED <<pc, seen>>

----------------------------------------------------------------------------
(* The entry points await by await.  Every await of db.ts and operations.ts *)
(* waits for a promise that is already resolved or for another async       *)
(* function, so the call goes on in a later microtask, and a task that is  *)
(* waiting at an await of its own runs in between.                         *)

\* insertMany(sql, paramsArray, skipSave, skipTransaction): whether it calls
\* saveDatabase after its statements.
insertManySaves_always(skipSave, skipTransaction) == TRUE

insertManySaves(skipSave, skipTransaction) == ~skipTransaction /\ ~skipSave

\* How often an effect is in a log.
Count(log, e) == Cardinality({i \in 1..Len(log) : log[i] = e})

\* importPurchaseDataFromObject calls runInTransaction: BEGIN TRANSACTION, and
\* the operations callback starts.
BeginImport(purchases, saveFails) ==
  /\ pc.at = "idle"
  /\ pc' = [at |-> "insertPurchases", op |-> "import", purchases |-> purchases,
            saveFails |-> saveFails, before |-> db, stored |-> localStorage,
            log |-> <<"BEGIN">>]
  /\ UNCHANGED <<db, localStorage, last, seen>>

\* The bulk INSERT OR IGNORE of all purchases, insertMany with skipSave and
\* skipTransaction, and the queries that resolve the purchase ids.
InsertPurchasesStep ==
  /\ pc.at = "insertPurchases"
  /\ db' = InsertPurchases(db, pc.purchases, 1)
  /\ localStorage' = IF insertManySaves(TRUE, TRUE) THEN db' ELSE localStorage
  /\ pc' = [at |-> "populate", op |-> pc.op, purchases |-> pc.purchases,
            saveFails |-> pc.saveFails, before |-> pc.before,
            stored |-> pc.stored,
            log |-> IF insertManySaves(TRUE, TRUE)
                    THEN Append(pc.log, "setItem") ELSE pc.log,
            purchaseIds |-> ResolvePurchaseIds(db', pc.purchases),
            purchaseIndex |-> 1]
  /\ UNCHANGED <<last, seen>>

\* One round of the loop over the purchases: the items, prices, links and
\* amounts of one purchase, each an insertMany with skipSave and
\* skipTransaction.  A statement that throws leaves the loop for the catch of
\* runInTransaction, which rolls back.
PopulateStep ==
  /\ pc.at = "populate"
  /\ pc.purchaseIndex <= Len(pc.purchases)
  /\ LET i == pc.purchaseIndex
         skipped == pc.purchaseIds[i] = 0 \/ Len(pc.purchases[i].items) = 0
         r == IF skipped THEN [db |-> db, err |-> FALSE]
              ELSE PopulatePurchase(db, pc.purchaseIds[i], pc.purchases[i].items)
         saved == ~skipped /\ ~r.err /\ insertManySaves(TRUE, TRUE)
     IN /\ db' = IF r.err THEN pc.before ELSE r.db
        /\ localStorage' = IF saved THEN r.db ELSE localStorage
        /\ pc' = [pc EXCEPT !.at = IF r.err THEN "caught" ELSE "populate",
                            !.purchaseIndex = i + 1,
                            !.log = IF r.err THEN Append(@, "ROLLBACK")
                                    ELSE IF saved THEN Append(@, "setItem")
                                    ELSE @]
  /\ UNCHANGED <<last, seen>>

\* The callback has returned: COMMIT, transactionStarted = false, saveDatabase,
\* with no await in between.
CommitStep ==
  /\ pc.at = "populate"
  /\ pc.purchaseIndex > Len(pc.purchases)
  /\ localStorage' = IF pc.saveFails THEN localStorage ELSE db
  /\ pc' = [pc EXCEPT !.at = IF pc.saveFails THEN "caught" ELSE "dispatch",
                      !.log = IF pc.saveFails THEN Append(@, "COMMIT")
                              ELSE @ \o <<"COMMIT", "setItem">>]
  /\ UNCHANGED <<db, last, seen>>

\* clearAllData calls clearDatabase: the DROP and CREATE statements, each
\* committed as it runs, and saveDatabase.
ClearStep(saveFails) ==
  /\ pc.at = "idle"
  /\ db' = clearDatabase(db)
  /\ localStorage' = IF saveFails THEN localStorage ELSE db'
  /\ pc' = [at |-> IF saveFails THEN "caught" ELSE "dispatch", op |-> "clearAll",
            before |-> db, stored |-> localStorage,
            log |-> IF saveFails THEN <<"DROP">> ELSE <<"DROP", "setItem">>]
  /\ UNCHANGED <<last, seen>>

\* What runInTransaction adds to the log of a call.
TransactionLog(t) ==
  IF t.error = "none" THEN <<"BEGIN", "COMMIT", "setItem">>
  ELSE IF t.error = "quota" THEN <<"BEGIN", "COMMIT">>
  ELSE <<"BEGIN", "ROLLBACK">>

\* A handler of the combined-item editor calls createCombinedItem,
\* updateCombinedItem (id # 0) or deleteCombinedItem inside its try.
CombinedStep(op, id, name, itemIds, saveFails) ==
  LET valid == CASE op = "create" -> createCombinedItemValid(name, itemIds)
                 [] op = "update" -> updateCombinedItemValid(name, itemIds)
                 [] op = "delete" -> TRUE
      written == CASE op = "create" -> createCombinedItemOperations(db, name, itemIds)
                   [] op = "update" -> updateCombinedItemOperations(db, id, name, itemIds)
                   [] op = "delete" -> deleteCombinedItemOperations(db, id)
      t == runInTransaction(db, localStorage, [db |-> written, err |-> FALSE],
                            saveFails)
  IN /\ pc.at = "idle"
     /\ db' = IF valid THEN t.db ELSE db
     /\ localStorage' = IF valid THEN t.localStorage ELSE localStorage
     /\ pc' = [at |-> IF valid /\ ~t.threw THEN "dispatch" ELSE "caught",
               op |-> op, before |-> db, stored |-> localStorage,
               log |-> IF valid THEN TransactionLog(t) ELSE <<>>]
     /\ UNCHANGED <<last, seen>>

\* The call has come back without a throw: window.dispatchEvent(new
\* Event("db-update")), by the engine after an import and a reset, by the
\* handler after a combined-item call, and the result.
DispatchStep ==
  /\ pc.at = "dispatch"
  /\ last' = [op |-> pc.op, outcome |-> "success", accessed |-> TRUE, events |-> 1,
              before |-> pc.before, stored |-> pc.stored,
              log |-> Append(pc.log, "db-update")]
  /\ pc' = [at |-> "idle"]
  /\ UNCHANGED <<db, localStorage, seen>>

\* The catch: {success: false, error}, or the handler's alert.
CatchStep ==
  /\ pc.at = "caught"
  /\ last' = [op |-> pc.op, outcome |-> "failure", accessed |-> pc.log # <<>>,
              events |-> 0, before |-> pc.before, stored |-> pc.stored,
              log |-> pc.log]
  /\ pc' = [at |-> "idle"]
  /\ UNCHANGED <<db, localStorage, seen>>

\* query(sql, params) of another task, at whichever await the call in flight
\* has reached: it reads the one Database there is.
query ==
  /\ seen' = [at |-> pc.at, db |-> db]
  /\ UNCHANGED <<db, localStorage, last, pc>>

----------------------------------------------------------------------------
(* Inputs and specifications.                                              *)

\* What an import submits: its purchases and their line items.
RECURSIVE FileWork(_)
FileWork(purchases) ==
  IF Len(purchases) = 0 THEN 0
  ELSE 1 + Len(purchases[1].items) + FileWork(Tail(purchases))

Submit(n, max) == work + n <= max /\ work' = work + n

Min(a, b) == IF a <= b THEN a ELSE b

\* The purchases with the given headers and a list of at most n of the line
\* items; none when n is negative.
PurchasesOf(headers, lineItems, n) ==
  IF n < 0 THEN {}
  ELSE {h @@ [items |-> its] : h \in headers, its \in SeqsUpTo(lineItems, n)}

RECURSIVE FilesWithin(_, _, _)
\* The import files whose purchases and line items number at most n.
FilesWithin(headers, lineItems, n) ==
  IF n < 1 THEN {<<>>}
  ELSE {<<>>} \cup
       UNION {{<<p>> \o rest : rest \in FilesWithin(headers, lineItems,
                                                     n - 1 - Len(p.items))} :
              p \in PurchasesOf(headers, lineItems, n - 1)}

\* Spec: natural keys with and without NULL, names that differ in letter
\* case, a store that can fail to persist, and the full reset.
ItemNames == {"Milk", "milk", "Bread"}

LineItems ==
  [name : ItemNames, price : {2}, quantity : {1}, weight : {NULL}, volume : {NULL}]

PurchaseHeaders ==
  {[timestamp |-> 1, numberOfItems |-> 1, basketValueGross |-> 5],
   [timestamp |-> 2, numberOfItems |-> 1, basketValueGross |-> 5],
   [timestamp |-> 2, numberOfItems |-> NULL, basketValueGross |-> 5]}

Next ==
  \/ \E purchases \in FilesWithin(PurchaseHeaders, LineItems, MaxWork - work) \ {<<>>},
        saveFails \in BOOLEAN :
       /\ Submit(FileWork(purchases), MaxWork)
       /\ importPurchaseDataFromObject(purchases, saveFails)
  \/ \E saveFails \in BOOLEAN :
       /\ Submit(1, MaxWork)
       /\ clearAllData(saveFails)

Spec == Init /\ [][Next]_vars

\* SpecCase: longer item lists over two names in both letter cases.
CaseItemNames == {"Milk", "milk", "Bread", "bread"}

CaseLineItems ==
  [name : CaseItemNames, price : {2}, quantity : {1}, weight : {NULL},
   volume : {NULL}]

CasePurchaseHeaders ==
  {[timestamp |-> 1, numberOfItems |-> 1, basketValueGross |-> 5],
   [timestamp |-> 2, numberOfItems |-> 1, basketValueGross |-> 5]}

NextCase ==
  \E purchases \in FilesWithin(CasePurchaseHeaders, CaseLineItems,
                               CaseMaxWork - work) \ {<<>>} :
    /\ Submit(FileWork(purchases), CaseMaxWork)
    /\ importPurchaseDataFromObject(purchases, FALSE)

SpecCase == Init /\ [][NextCase]_vars

\* SpecStats: quantities, weights, volumes and prices that differ, and
\* combined items over the imported items.
StatsItemNames == {"Milk", "Bread"}

StatsMeasures ==
  {[quantity |-> 1, weight |-> NULL, volume |-> NULL],
   [quantity |-> 2, weight |-> NULL, volume |-> NULL],
   [quantity |-> 1, weight |-> 0, volume |-> 0],
   [quantity |-> 1, weight |-> 7, volume |-> 2]}

StatsLineItems ==
  {[name |-> n, price |-> p] @@ m :
     n \in StatsItemNames, p \in {3, 6}, m \in StatsMeasures}

StatsPurchaseHeaders ==
  {[timestamp |-> 1, numberOfItems |-> 1, basketValueGross |-> 5],
   [timestamp |-> 2, numberOfItems |-> 1, basketValueGross |-> 5]}

NextStats ==
  \/ \E p \in PurchasesOf(StatsPurchaseHeaders, StatsLineItems,
                          Min(StatsMaxItems, StatsMaxWork - work - 1)) :
       /\ Submit(FileWork(<<p>>), StatsMaxWork)
       /\ importPurchaseDataFromObject(<<p>>, FALSE)
  \/ \E itemIds \in SeqsUpTo({1, 2}, 2) :
       /\ Submit(1, StatsMaxWork)
       /\ createCombinedItem("Dairy", itemIds, FALSE)

SpecStats == Init /\ [][NextStats]_vars

\* SpecCadence: one item bought at up to three times, one or two days apart.
CadenceLineItems ==
  [name : {"Milk"}, price : {3, 6}, quantity : {1}, weight : {NULL}, volume : {NULL}]

CadencePurchaseHeaders ==
  {[timestamp |-> t, numberOfItems |-> 1, basketValueGross |-> 5] : t \in {1, 2, 4}}

NextCadence ==
  \E p \in PurchasesOf(CadencePurchaseHeaders, CadenceLineItems,
                       Min(StatsMaxItems, CadenceMaxWork - work - 1)) :
    /\ Submit(FileWork(<<p>>), CadenceMaxWork)
    /\ importPurchaseDataFromObject(<<p>>, FALSE)

SpecCadence == Init /\ [][NextCadence]_vars

\* SpecCombined: the combined-item entry points with names that are empty,
\* blank or padded and id lists that are empty, repeated or distinct, next to
\* an import and the full reset.
CombinedNames == {"", " ", " Dairy"}

CombinedItemIds == SeqsUpTo({1, 2}, 2)

CombinedLineItems ==
  [name : {"Milk", "Bread"}, price : {3}, quantity : {1}, weight : {NULL},
   volume : {NULL}]

CombinedPurchaseHeaders ==
  {[timestamp |-> 1, numberOfItems |-> 1, basketValueGross |-> 5]}

NextCombined ==
  \/ \E p \in PurchasesOf(CombinedPurchaseHeaders, CombinedLineItems, 1) :
       /\ Submit(1, CombinedMaxWork)
       /\ importPurchaseDataFromObject(<<p>>, FALSE)
  \/ /\ Submit(1, CombinedMaxWork)
     /\ clearAllData(FALSE)
  \/ \E name \in CombinedNames, itemIds \in CombinedItemIds :
       /\ Submit(1, CombinedMaxWork)
       /\ createCombinedItem(name, itemIds, FALSE)
  \/ \E id \in {1, 2}, name \in CombinedNames, itemIds \in CombinedItemIds :
       /\ Submit(1, CombinedMaxWork)
       /\ updateCombinedItem(id, name, itemIds, FALSE)
  \/ \E id \in {1, 2} :
       /\ Submit(1, CombinedMaxWork)
       /\ deleteCombinedItem(id, FALSE)

SpecCombined == Init /\ [][NextCombined]_vars

\* SpecUpdate: combined items created, updated and deleted in a store where
\* a statement of the update or the save after it can throw.
UpdateNames == {"Dairy", " Cheese "}

NextUpdate ==
  \/ \E name \in UpdateNames, itemIds \in CombinedItemIds :
       /\ Submit(1, UpdateMaxWork)
       /\ createCombinedItem(name, itemIds, FALSE)
  \/ \E id \in {1, 2}, name \in UpdateNames, itemIds \in CombinedItemIds,
        failing \in 0..3, saveFails \in BOOLEAN :
       /\ Submit(1, UpdateMaxWork)
       /\ updateCombinedItemThrowing(id, name, itemIds, failing, saveFails)
  \/ \E id \in {1, 2} :
       /\ Submit(1, UpdateMaxWork)
       /\ deleteCombinedItem(id, FALSE)

SpecUpdate == Init /\ [][NextUpdate]_vars

\* SpecXLSX: spreadsheets whose rows share timestamps, differ in price and
\* quantity, and include rows the parser skips.
XLSXMaxWork == 3

XLSXRows ==
  [date : {1}, time : {NULL, 0, 3600}, itemName : {"Milk"}, quantity : {1, 2},
   unitPrice : {3}, cost : {6}, discount : {0, -3}]
  \cup
  {[date |-> NULL, time |-> 0, itemName |-> "Milk", quantity |-> 1,
    unitPrice |-> 3, cost |-> 6, discount |-> 0],
   [date |-> 1, time |-> 0, itemName |-> "", quantity |-> 1,
    unitPrice |-> 3, cost |-> 6, discount |-> 0],
   [date |-> 1, time |-> 0, itemName |-> " Bread", quantity |-> 0,
    unitPrice |-> 3, cost |-> 6, discount |-> 0],
   [date |-> 2, time |-> NULL, itemName |-> " Bread", quantity |-> 1,
    unitPrice |-> 3, cost |-> 3, discount |-> 0]}

NextXLSX ==
  \E rows \in SeqsUpTo(XLSXRows, XLSXMaxWork - work) \ {<<>>},
     hasSheet \in BOOLEAN, headerRowIndex \in {-1, 0} :
    /\ Submit(Len(rows), XLSXMaxWork)
    /\ importPurchaseDataFromXLSX([hasSheet |-> hasSheet,
                                   headerRowIndex |-> headerRowIndex,
                                   rows |-> rows], FALSE)

SpecXLSX == Init /\ [][NextXLSX]_vars

\* SpecSteps: the calls step by step, with a reader in between, a store that
\* can fail to persist and an import that a statement can fail.
StepsLineItems ==
  [name : {"Milk"}, price : {2}, quantity : {1}, weight : {NULL}, volume : {NULL}]

StepsPurchaseHeaders ==
  {[timestamp |-> 1, numberOfItems |-> 1, basketValueGross |-> 5],
   [timestamp |-> 2, numberOfItems |-> 1, basketValueGross |-> 5]}

NextSteps ==
  \/ \E purchases \in FilesWithin(StepsPurchaseHeaders, StepsLineItems,
                                  StepsMaxWork - work) \ {<<>>},
        saveFails \in BOOLEAN :
       /\ Submit(FileWork(purchases), StepsMaxWork)
       /\ BeginImport(purchases, saveFails)
  \/ InsertPurchasesStep /\ UNCHANGED work
  \/ PopulateStep /\ UNCHANGED work
  \/ CommitStep /\ UNCHANGED work
  \/ \E saveFails \in BOOLEAN :
       /\ Submit(1, StepsMaxWork)
       /\ ClearStep(saveFails)
  \/ \E op \in {"create", "update", "delete"}, itemIds \in {<<>>, <<1>>},
        saveFails \in BOOLEAN :
       /\ Submit(1, StepsMaxWork)
       /\ CombinedStep(op, 1, "Dairy", itemIds, saveFails)
  \/ DispatchStep /\ UNCHANGED work
  \/ CatchStep /\ UNCHANGED work
  \/ /\ Submit(1, StepsMaxWork)
     /\ query

SpecSteps == Init /\ [][NextSteps]_vars

----------------------------------------------------------------------------
(* Properties.                                                             *)

RowCounts(d) ==
  <<Len(d.purchases), Len(d.items), Len(d.prices), Len(d.amounts),
    Len(d.price_purchases)>>

NaturalKey(p) == <<p.timestamp, p.numberOfItems, p.basketValueGross>>

DistinctKeys(purchases) ==
  \A i, j \in 1..Len(purchases) :
    i # j => NaturalKey(purchases[i]) # NaturalKey(purchases[j])

\* C1: importing a purchase set with pairwise distinct natural keys a second
\* time, right after importing it, leaves the row counts of purchases, items,
\* prices, amounts and price_purchases as the first import left them.
C1_IdempotentImport ==
  [][(/\ last.op = "import" /\ last.outcome = "success"
      /\ last'.op = "import" /\ last'.outcome = "success"
      /\ last'.purchases = last.purchases
      /\ DistinctKeys(last.purchases))
     => RowCounts(db') = RowCounts(db)]_vars

EmptyStore(d) ==
  /\ d.purchases = <<>> /\ d.items = <<>> /\ d.prices = <<>>
  /\ d.amounts = <<>> /\ d.price_purchases = <<>>

\* The call was a successful import of one purchase with the single line item
\* {quantity 1, weight 0, volume 0, price p}.
EndToEndScenario(call) ==
  /\ call.op = "import" /\ call.outcome = "success"
  /\ Len(call.purchases) = 1
  /\ Len(call.purchases[1].items) = 1
  /\ call.purchases[1].items[1].quantity = 1
  /\ call.purchases[1].items[1].weight = 0
  /\ call.purchases[1].items[1].volume = 0

\* What getItemsWithStats tells of each entry, the id left out.
StatsShown(d) ==
  {[name |-> e.name, totalSpent |-> e.totalSpent,
    totalQuantity |-> e.totalQuantity, latestPrice |-> e.latestPrice] :
   e \in getItemsWithStats(d)}

\* C2: after the import of one purchase with the single line item
\* {quantity 1, weight 0, volume 0, price p} into an empty store,
\* getItemsWithStats returns one entry, for that item, with totalSpent = p,
\* totalQuantity = 1 and latestPrice = p; importing the same data again
\* leaves the three values as they are.
C2_EndToEnd ==
  [][EndToEndScenario(last') =>
       LET item == last'.purchases[1].items[1]
       IN /\ EmptyStore(db) =>
               StatsShown(db') = {[name |-> item.name, totalSpent |-> item.price,
                                   totalQuantity |-> 1, latestPrice |-> item.price]}
          /\ last = last' => StatsShown(db') = StatsShown(db)]_vars

\* The amounts rows of an item, by position.
AmountsOf(d, itemId) == {k \in 1..Len(d.amounts) : d.amounts[k].itemId = itemId}

\* volume when it is not NULL, quantity when it is.
EffectiveQuantity(a) == IF a.volume # NULL THEN a.volume ELSE a.quantity

\* C3: every amounts row of an item adds its effective quantity (volume when
\* volume is not NULL, quantity when it is) to the item's totalQuantity and
\* the price of its line item times that quantity to the item's totalSpent;
\* weight adds nothing.
C3_EffectiveQuantity ==
  \A e \in getItemsWithStats(db) :
    LET rows == AmountsOf(db, e.id)
    IN /\ e.totalQuantity =
            SumSet(rows, [k \in rows |-> EffectiveQuantity(db.amounts[k])])
       /\ e.totalSpent =
            SumSet(rows, [k \in rows |-> db.amounts[k].line.price *
                                         EffectiveQuantity(db.amounts[k])])

\* C4: two amounts rows of different purchases whose line items have names
\* that differ only in letter case reference the same items row.
C4_CaseInsensitiveItem ==
  \A a, b \in Range(db.amounts) :
    (/\ a.purchaseId # b.purchaseId
     /\ a.line.name # b.line.name
     /\ toLowerCase(a.line.name) = toLowerCase(b.line.name))
    => a.itemId = b.itemId

\* The purchases that hold an amounts row of the item, and their timestamps.
PurchasesWith(d, itemId) == {d.amounts[k].purchaseId : k \in AmountsOf(d, itemId)}

TimestampsOf(d, itemId) ==
  {PurchaseRow(d, id).timestamp : id \in PurchasesWith(d, itemId)}

RECURSIVE Ascending(_)
\* The numbers of the set S, smallest first.
Ascending(S) ==
  IF S = {} THEN <<>>
  ELSE LET x == CHOOSE y \in S : \A z \in S : y <= z
       IN <<x>> \o Ascending(S \ {x})

\* The gaps between consecutive purchases of the item, by position, and the
\* positions that remain once the n largest gaps are removed.
Gaps(d, itemId) ==
  LET t == Ascending(TimestampsOf(d, itemId))
  IN [k \in 1..Len(t) - 1 |-> t[k + 1] - t[k]]

Remaining(gaps, n) ==
  {k \in 1..Len(gaps) :
     Cardinality({j \in 1..Len(gaps) :
                    gaps[j] > gaps[k] \/ (gaps[j] = gaps[k] /\ j < k)}) >= n}

\* C5: for an item whose purchases have pairwise distinct timestamps,
\* getDaysBetweenPurchasesData(itemId, N) returns as averageDays the mean of
\* the gaps between consecutive purchases that remain once the N largest are
\* removed, and null when no gap remains.
C5_DaysBetweenTrimming ==
  \A i \in Range(db.items), N \in 0..MaxExclude :
    Cardinality(TimestampsOf(db, i.id)) = Cardinality(PurchasesWith(db, i.id)) =>
      LET gaps == Gaps(db, i.id)
          kept == Remaining(gaps, N)
          average == getDaysBetweenPurchasesData(db, i.id, N).averageDays
      IN IF kept = {} THEN average = {}
         ELSE /\ average # {}
              /\ \A avg \in average :
                   avg.num * Cardinality(kept) =
                   SumSet(kept, [k \in kept |-> gaps[k]]) * avg.den

\* The item ids linked to a combined item, and whether no id is linked twice.
LinkedItems(d, combinedItemId) ==
  {l.itemId : l \in {x \in Range(d.combined_item_links) :
                       x.combinedItemId = combinedItemId}}

DistinctLinks(d, combinedItemId) ==
  Cardinality(LinkedItems(d, combinedItemId)) =
  Len(SelectSeq(d.combined_item_links, LAMBDA l : l.combinedItemId = combinedItemId))

\* The price_purchases rows of the items linked to a combined item, and the
\* timestamp and the price of such a row.
LinkedPurchases(d, combinedItemId) ==
  UNION {ItemLinks(d, i) : i \in LinkedItems(d, combinedItemId)}

LinkTimestamp(d, k) == PurchaseRow(d, d.price_purchases[k].purchaseId).timestamp

LinkPrice(d, k) == PriceRow(d, d.price_purchases[k].priceId).price

\* C6: for a combined item linked to distinct items, getCombinedItemWithStats
\* returns totalQuantity and totalSpent equal to the sums of what
\* getItemWithStats returns for the linked items, and latestPrice equal to the
\* price of a purchase of the greatest timestamp among the linked items'
\* purchases.
C6_CombinedStats ==
  \A c \in Range(db.combined_items) :
    (DistinctLinks(db, c.id) /\ LinkedItems(db, c.id) # {}) =>
      LET found == UNION {getItemWithStats(db, i) : i \in LinkedItems(db, c.id)}
          links == LinkedPurchases(db, c.id)
          top == {k \in links :
                    \A j \in links : LinkTimestamp(db, j) <= LinkTimestamp(db, k)}
      IN /\ getCombinedItemWithStats(db, c.id) # {}
         /\ \A r \in getCombinedItemWithStats(db, c.id) :
              /\ r.totalQuantity =
                   SumSet(found, [s \in found |-> s.totalQuantity])
              /\ r.totalSpent =
                   SumSet(found, [s \in found |-> s.totalSpent])
              /\ links # {} => r.latestPrice \in {LinkPrice(db, k) : k \in top}

\* A combined item over two items with spend of their own, bought at
\* different times at different prices, whose stats are the two sums.
C6_Witness ==
  \E c \in Range(db.combined_items) :
    /\ LinkedItems(db, c.id) = {1, 2}
    /\ DistinctLinks(db, c.id)
    /\ \A i \in {1, 2} : \E it \in Range(db.items) : it.id = i
    /\ totalSpent(db, 1) > 0 /\ totalSpent(db, 2) > 0
    /\ totalSpent(db, 1) # totalSpent(db, 2)
    /\ \E k \in ItemLinks(db, 1), j \in ItemLinks(db, 2) :
         /\ LinkTimestamp(db, k) < LinkTimestamp(db, j)
         /\ LinkPrice(db, k) # LinkPrice(db, j)
    /\ \E r \in getCombinedItemWithStats(db, c.id) :
         r.totalSpent = totalSpent(db, 1) + totalSpent(db, 2)

\* The rows of a history at a timestamp, by position.
RowsAt(history, timestamp) ==
  {k \in 1..Len(history) : history[k].timestamp = timestamp}

\* C7: getCombinedItemChartData returns one point per distinct timestamp of
\* the merged history, oldest first; the point's quantityBought is the sum of
\* the effective quantities of the rows at its timestamp and its price is
\* sum(price x qty) / sum(qty) over those rows.
C7_CombinedChart ==
  \A c \in Range(db.combined_items) :
    \A points \in getCombinedItemChartData(db, c.id),
       history \in getCombinedItemPurchaseHistory(db, c.id) :
      /\ {points[j].timestamp : j \in 1..Len(points)} =
           {history[k].timestamp : k \in 1..Len(history)}
      /\ \A j \in 1..Len(points) - 1 : points[j].timestamp < points[j + 1].timestamp
      /\ \A j \in 1..Len(points) :
           LET rows == RowsAt(history, points[j].timestamp)
               qty == SumSet(rows, [k \in rows |-> Num(history[k].trueQuantity)])
               spent == SumSet(rows, [k \in rows |->
                                        history[k].price * Num(history[k].trueQuantity)])
           IN /\ Num(points[j].quantityBought) = qty
              /\ qty > 0 => points[j].price.num * qty = spent * points[j].price.den

\* A chart with a point that merges rows of two items bought in one purchase:
\* quantity 2 at price 3 and quantity 1 at price 6 give quantity 3 at price 4.
C7_Witness ==
  \E c \in Range(db.combined_items) :
    \E points \in getCombinedItemChartData(db, c.id),
       history \in getCombinedItemPurchaseHistory(db, c.id) :
      \E j \in 1..Len(points) :
        /\ \E a, b \in RowsAt(history, points[j].timestamp) :
             /\ history[a].price = 3 /\ history[a].trueQuantity = 2
             /\ history[b].price = 6 /\ history[b].trueQuantity = 1
        /\ Cardinality(RowsAt(history, points[j].timestamp)) = 2
        /\ points[j].quantityBought = 3
        /\ points[j].price.num = 4 * points[j].price.den

\* C8: createCombinedItem and updateCombinedItem called with no item id throw
\* before any statement runs: every table and the persisted copy stay as they
\* were.
C8_EmptyIdsRejected ==
  [][(last'.op \in {"create", "update"} /\ last'.itemIds = <<>>) =>
       /\ last'.outcome = "threw"
       /\ ~last'.accessed
       /\ db' = db
       /\ localStorage' = localStorage]_vars

\* updateCombinedItem with no item id has thrown on a combined item that
\* exists, in a store that holds items.
C8_Witness ==
  /\ last.op = "update" /\ last.itemIds = <<>> /\ last.outcome = "threw"
  /\ \E c \in Range(db.combined_items) : c.id = last.id
  /\ db.items # <<>>

\* C9: createCombinedItem and updateCombinedItem called with an empty or blank
\* name throw before any access to the store, and no combined item with such
\* a name is ever in the store.
C9_EmptyNameRejected ==
  [][/\ (last'.op \in {"create", "update"} /\ trim(last'.name) = "") =>
          /\ last'.outcome = "threw"
          /\ ~last'.accessed
          /\ db' = db
     /\ \A c \in Range(db'.combined_items) : trim(c.name) # ""]_vars

\* C10: an import that returns {success: false} leaves every table as it was
\* before the import, and an import returns a result, it never throws.
C10_FailedImportChangesNothing ==
  [][last'.op = "import" =>
       /\ last'.outcome \in {"success", "failure"}
       /\ last'.outcome = "failure" => db' = db]_vars

\* C11: when writing the serialized store fails at the end of an import, the
\* import's writes are rolled back, so the Database equals what it was before
\* the import, and the import returns {success: false, error}.
C11_PersistFailureRollsBack ==
  [][(last'.op = "import" /\ last'.error = "quota") =>
       /\ last'.outcome = "failure"
       /\ db' = db]_vars

\* The store an import in flight leads to when no statement of it throws, and
\* the store it started from when one does.
PostImport(call) ==
  LET r == importOperations(call.before, call.purchases)
  IN IF r.err THEN call.before ELSE r.db

\* C12: a query that runs at an await of an import in progress reads the
\* complete store of before the import or the complete store of after it,
\* never a part of the import's rows (purchases without their amounts).
C12_ReaderIsolation ==
  [][(seen' # seen /\ pc.at # "idle" /\ pc.op = "import") =>
       seen'.db \in {pc.before, PostImport(pc)}]_vars

\* The effects that commit a mutation: the COMMIT of a transaction, and the
\* DROP and CREATE statements of the reset, which run outside a transaction.
Commits(log) == {i \in 1..Len(log) : log[i] \in {"COMMIT", "DROP"}}

Signals(log) == {i \in 1..Len(log) : log[i] = "db-update"}

\* C13: every call that has committed a mutation (an import, clearAll,
\* createCombinedItem, updateCombinedItem, deleteCombinedItem) has, when it is
\* over, emitted exactly one "db-update" signal, and emitted it after the
\* commit, not before.
C13_ChangeNotification ==
  (last.op # "init" /\ Commits(last.log) # {}) =>
    /\ Cardinality(Signals(last.log)) = 1
    /\ \A i \in Signals(last.log), j \in Commits(last.log) : j < i

Writes(log) == {i \in 1..Len(log) : log[i] = "setItem"}

\* C14: a successful import writes the serialized store exactly once, after
\* the COMMIT; while its transaction is open nothing is written; a failed
\* import writes nothing, so the persisted store is what it was before it.
C14_SingleSerialize ==
  [][/\ (pc'.at \in {"insertPurchases", "populate"} /\ pc'.op = "import") =>
          /\ Writes(pc'.log) = {}
          /\ localStorage' = pc'.stored
     /\ (pc.at = "dispatch" /\ pc.op = "import" /\ pc'.at = "idle") =>
          /\ Cardinality(Writes(last'.log)) = 1
          /\ \A i \in Writes(last'.log), j \in Commits(last'.log) : j < i
          /\ localStorage' = db'
     /\ (pc.at = "caught" /\ pc.op = "import" /\ pc'.at = "idle") =>
          /\ Writes(last'.log) = {}
          /\ localStorage' = pc.stored]_vars

\* An import of line items has returned {success: true} over a store that
\* held purchases before.
C14_Witness ==
  /\ pc.at = "idle"
  /\ last.op = "import"
  /\ last.outcome = "success"
  /\ Len(last.before.purchases) > 0
  /\ Len(db.amounts) > Len(last.before.amounts)

\* The seven tables of the store.
AllTables(d) ==
  <<d.purchases, d.items, d.prices, d.amounts, d.price_purchases,
    d.combined_items, d.combined_item_links>>

\* C15: after clearAll has succeeded, from whatever state, every table
\* (purchases, items, prices, amounts, price-purchase links, combined items,
\* combined-item links) exists and is empty, and the persisted store is that
\* empty store.
C15_FullReset ==
  [][(last'.op = "clearAll" /\ last'.outcome = "success") =>
       /\ \A i \in 1..Len(AllTables(db')) : AllTables(db')[i] = <<>>
       /\ localStorage' = db']_vars

\* The submitted purchase j has the natural key (with every part present) of
\* a purchase submitted before it with line items: earlier in the batch, or
\* in an earlier import, which left a purchase row with amounts.
Collides(d, purchases, j) ==
  /\ NULL \notin Range(NaturalKey(purchases[j]))
  /\ \/ \E i \in 1..(j - 1) :
          /\ NaturalKey(purchases[i]) = NaturalKey(purchases[j])
          /\ Len(purchases[i].items) > 0
     \/ \E r \in Range(d.purchases) :
          /\ NaturalKey(r) = NaturalKey(purchases[j])
          /\ AmountCount(d, r.id) > 0

RECURSIVE WithoutCollisions(_, _, _)
\* The batch without the purchases that collide.
WithoutCollisions(d, purchases, j) ==
  IF j > Len(purchases) THEN <<>>
  ELSE (IF Collides(d, purchases, j) THEN <<>> ELSE <<purchases[j]>>)
         \o WithoutCollisions(d, purchases, j + 1)

\* C16: when two submitted purchases have the same (timestamp, numberOfItems,
\* basketValueGross), in separate imports or in one batch, one purchase row
\* exists for the key and the second purchase contributes nothing: the store
\* after the import is the store the import leaves without the second
\* purchase (only the first purchase's amounts and price links).
C16_NaturalKeyCollision ==
  [][(last'.op = "import" /\ last'.outcome = "success") =>
       /\ \A j \in 1..Len(last'.purchases) :
            NULL \notin Range(NaturalKey(last'.purchases[j])) =>
              Cardinality({i \in 1..Len(db'.purchases) :
                             NaturalKey(db'.purchases[i])
                               = NaturalKey(last'.purchases[j])}) = 1
       /\ db' = importOperations(db, WithoutCollisions(db, last'.purchases, 1)).db]_vars

\* C17: after any sequence of imports no two rows of items have names that
\* are equal when letter case is ignored, also when one purchase lists two
\* line items whose names differ only in case.
C17_ItemIdentity ==
  \A i, j \in 1..Len(db.items) :
    i # j => toLowerCase(db.items[i].name) # toLowerCase(db.items[j].name)

\* C18: no two rows of prices have the same (itemId, price); a line item with
\* a known pair reuses the row and only a new pair adds one.
C18_PriceIdentity ==
  \A i, j \in 1..Len(db.prices) :
    i # j => <<db.prices[i].itemId, db.prices[i].price>>
               # <<db.prices[j].itemId, db.prices[j].price>>

C20_CombinedItemsNonEmpty ==
  \A c \in Range(db.combined_items) :
    \E l \in Range(db.combined_item_links) : l.combinedItemId = c.id

\* updateCombinedItem has replaced the links of a combined item that exists
\* by links to two items.
C20_Witness ==
  /\ last.op = "update"
  /\ last.outcome = "returned"
  /\ \E c \in Range(db.combined_items) : c.id = last.id
  /\ Cardinality({i \in 1..Len(db.combined_item_links) :
                    db.combined_item_links[i].combinedItemId = last.id}) = 2

\* The five tables that hold the purchase history.
HistoryTables(d) ==
  <<d.purchases, d.items, d.prices, d.amounts, d.price_purchases>>

\* Every row of every history table of d is a row of the same table of e.
Superset(d, e) ==
  \A t \in 1..Len(HistoryTables(d)) :
    Range(HistoryTables(d)[t]) \subseteq Range(HistoryTables(e)[t])

\* C21: an import never deletes or changes a row of purchases, items, prices,
\* amounts or price_purchases (each table after the import holds every row it
\* held before), and createCombinedItem, updateCombinedItem and
\* deleteCombinedItem leave those five tables as they were.
C21_AppendOnly ==
  /\ (pc.at = "idle" /\ last.op = "import") => Superset(last.before, db)
  /\ (pc.at = "idle" /\ last.op \in {"create", "update", "delete"}) =>
       HistoryTables(db) = HistoryTables(last.before)

\* An import has added amounts to a store that held amounts before it.
C21_Witness ==
  /\ pc.at = "idle"
  /\ last.op = "import"
  /\ last.before.amounts # <<>>
  /\ Len(db.amounts) > Len(last.before.amounts)

\* The id of the purchase row that the import of purchases into d populates
\* for the submitted purchase k, 0 when it populates none.
PopulatedId(d, purchases, k) ==
  IF Len(purchases[k].items) = 0 THEN 0
  ELSE ResolvePurchaseIds(InsertPurchases(d, purchases, 1), purchases)[k]

\* The line item it of the purchase row purchaseId is linked in d: a price row
\* of its price and of an item of its name is linked to the purchase, and its
\* amounts row references that item.
LineLinked(d, purchaseId, it) ==
  \E i \in Range(d.items) :
    /\ toLowerCase(i.name) = toLowerCase(it.name)
    /\ \E pr \in Range(d.prices) :
         /\ pr.itemId = i.id
         /\ pr.price = it.price
         /\ \E l \in Range(d.price_purchases) :
              l.purchaseId = purchaseId /\ l.priceId = pr.id
    /\ \E a \in Range(d.amounts) :
         a.purchaseId = purchaseId /\ a.line = it /\ a.itemId = i.id

\* C22: after a successful import, for every line item (name n, price v) of
\* every purchase the import populated, the purchase is linked through
\* price_purchases to a price row of price v whose item is named n (ignoring
\* case), and the line item's amounts row references that item, for every
\* item list, also with repeated names or repeated (name, price) pairs.
C22_LineItemLinking ==
  [][(last'.op = "import" /\ last'.outcome = "success") =>
       \A k \in 1..Len(last'.purchases) :
         PopulatedId(db, last'.purchases, k) # 0 =>
           \A n \in 1..Len(last'.purchases[k].items) :
             LineLinked(db', PopulatedId(db, last'.purchases, k),
                        last'.purchases[k].items[n])]_vars

\* The item list names one item twice.
HasRepeatedName(items) ==
  \E m, n \in 1..Len(items) : m # n /\ items[m].name = items[n].name

\* C23: an import of a purchase whose item list contains the same item name
\* twice succeeds, whether or not the item is already in the store, and the
\* purchase it populates ends with as many amounts rows as it has line items.
C23_OneAmountPerLineItem ==
  [][last'.op = "import" =>
       \A k \in 1..Len(last'.purchases) :
         (/\ PopulatedId(db, last'.purchases, k) # 0
          /\ HasRepeatedName(last'.purchases[k].items)) =>
           /\ last'.outcome = "success"
           /\ AmountCount(db', PopulatedId(db, last'.purchases, k))
                = Len(last'.purchases[k].items)]_vars

\* The purchase rows of d that have the natural key of the purchase p.
RowsWithKey(d, p) ==
  {r \in Range(d.purchases) : NaturalKey(r) = NaturalKey(p)}

\* The batch without its purchase k.
Without(purchases, k) ==
  SubSeq(purchases, 1, k - 1) \o SubSeq(purchases, k + 1, Len(purchases))

\* C24: a submitted purchase whose natural key is that of an existing purchase
\* with at least one amounts row adds no row to any table; a submitted
\* purchase whose natural key is that of an existing purchase with no amounts
\* row has its line items attached to that purchase row, and no second
\* purchase row is created.
C24_SkipVersusRecovery ==
  [][(last'.op = "import" /\ last'.outcome = "success") =>
       \A k \in 1..Len(last'.purchases) :
         \A r \in RowsWithKey(db, last'.purchases[k]) :
           /\ AmountCount(db, r.id) > 0 =>
                db' = importOperations(db, Without(last'.purchases, k)).db
           /\ AmountCount(db, r.id) = 0 =>
                /\ \A n \in 1..Len(last'.purchases[k].items) :
                     \E a \in Range(db'.amounts) :
                       /\ a.purchaseId = r.id
                       /\ a.line = last'.purchases[k].items[n]
                /\ RowsWithKey(db', last'.purchases[k]) = {r}]_vars

\* The name and the links of the combined item id.
CombinedItemOf(d, id) ==
  [names |-> {c.name : c \in {x \in Range(d.combined_items) : x.id = id}},
   links |-> SelectSeq(d.combined_item_links, LAMBDA l : l.combinedItemId = id)]

SameAverage(a, b) ==
  /\ (a = {}) = (b = {})
  /\ \A x \in a, y \in b : x.num * y.den = y.num * x.den

\* C26: for a combined item that links exactly one item, whose purchases have
\* pairwise distinct timestamps, getCombinedItemDaysBetweenPurchasesData
\* returns for every N the series of points and the averageDays that
\* getDaysBetweenPurchasesData returns for the item.
C26_CombinedCadence ==
  \A c \in Range(db.combined_items), N \in 0..MaxExclude :
    LET itemIds == getCombinedItemLinkIds(db, c.id)
    IN (/\ Len(itemIds) = 1
        /\ Cardinality(TimestampsOf(db, itemIds[1]))
             = Cardinality(PurchasesWith(db, itemIds[1]))) =>
         LET single == getDaysBetweenPurchasesData(db, itemIds[1], N)
             combined == getCombinedItemDaysBetweenPurchasesData(db, c.id, N)
         IN /\ combined.data = single.data
            /\ SameAverage(combined.averageDays, single.averageDays)

\* The accepted rows of a sheet, in sheet order.
AcceptedRows(rows) == SelectSeq(rows, Accepted)

\* The accepted rows with the given combined timestamp.
AcceptedRowsAt(rows, timestamp) ==
  SelectSeq(AcceptedRows(rows), LAMBDA r : CombinedTimestamp(r) = timestamp)

\* C27: the spreadsheet import submits exactly one purchase per distinct
\* combined timestamp of the accepted rows; each purchase holds one line item
\* per accepted row with its timestamp, numberOfItems is that number of rows,
\* and basketValueGross and basketValueNet are both the sum of price times
\* quantity over its line items.
C27_TabularGrouping ==
  (last.op = "importXLSX" /\ last.accessed) =>
    LET rows == last.file.rows
        purchases == last.purchases
        stamps == {CombinedTimestamp(r) : r \in Range(AcceptedRows(rows))}
    IN /\ {p.timestamp : p \in Range(purchases)} = stamps
       /\ Len(purchases) = Cardinality(stamps)
       /\ \A p \in Range(purchases) :
            LET group == AcceptedRowsAt(rows, p.timestamp)
            IN /\ Len(p.items) = Len(group)
               /\ \A k \in 1..Len(group) :
                    /\ p.items[k].name = trim(group[k].itemName)
                    /\ p.items[k].quantity = group[k].quantity
                    /\ p.items[k].price = EffectivePrice(group[k])
               /\ p.numberOfItems = Len(group)
               /\ p.basketValueGross
                    = SumSet(1..Len(p.items),
                             [k \in 1..Len(p.items) |->
                                p.items[k].price * p.items[k].quantity])
               /\ p.basketValueNet = p.basketValueGross

\* A sheet of three accepted rows at two timestamps, two of them sharing one,
\* was imported.
C27_Witness ==
  /\ last.op = "importXLSX" /\ last.accessed
  /\ Len(AcceptedRows(last.file.rows)) = 3
  /\ Len(last.purchases) = 2
  /\ \E p \in Range(last.purchases) :
       Len(p.items) = 2 /\ p.items[1].price # p.items[2].price

\* The spend of the stored line items of an item: each amounts row's own unit
\* price times its effective quantity.
LineItemSpend(d, itemId) ==
  LET rows == AmountsOf(d, itemId)
  IN SumSet(rows, [k \in rows |-> d.amounts[k].line.price *
                                  EffectiveQuantity(d.amounts[k])])

\* C28: after imports, the totalSpent that getItemWithStats reports for an item
\* is the sum, over the item's amounts rows, of the line item's own unit price
\* times its effective quantity, also when one purchase holds the item at two
\* unit prices.
C28_SpendOverLineItems ==
  \A i \in Range(db.items) : totalSpent(db, i.id) = LineItemSpend(db, i.id)

\* Every combined_item_links row of d has its combined_items row.
LinksHaveCombinedItem(d) ==
  \A l \in Range(d.combined_item_links) :
    \E c \in Range(d.combined_items) : c.id = l.combinedItemId

\* Every link row that d and e both hold refers in e to the items row it
\* refers to in d.
LinksKeepItem(d, e) ==
  \A l \in Range(d.combined_item_links) \cap Range(e.combined_item_links) :
    \A i \in Range(d.items) : i.id = l.itemId => i \in Range(e.items)

\* C29: after every import, clearAll, createCombinedItem, updateCombinedItem
\* and deleteCombinedItem, every combined_item_links row refers to an existing
\* combined_items row, and a link row that the step leaves in place refers to
\* the same items row as before it.
C29_LinkIntegrity ==
  [][LinksHaveCombinedItem(db') /\ LinksKeepItem(db, db')]_vars

\* Every purchase of the batch has at least one line item.
AllWithItems(purchases) ==
  \A k \in 1..Len(purchases) : Len(purchases[k].items) > 0

\* The purchase p with line items has exactly one purchase row in d, and that
\* row has an amounts row.
Populated(d, p) ==
  Len(p.items) > 0 =>
    /\ Cardinality(RowsWithKey(d, p)) = 1
    /\ \A r \in RowsWithKey(d, p) : AmountCount(d, r.id) > 0

\* C30: after a successful import every submitted purchase with at least one
\* line item has exactly one purchase row, with at least one amounts row, and
\* importing the same purchases again adds no purchase row; also for
\* purchases whose numberOfItems or basketValueGross is NULL.
C30_NoUnpopulatedPurchase ==
  [][(last'.op = "import" /\ last'.outcome = "success") =>
       /\ \A k \in 1..Len(last'.purchases) : Populated(db', last'.purchases[k])
       /\ (/\ last.op = "import" /\ last.outcome = "success"
           /\ last.purchases = last'.purchases
           /\ AllWithItems(last.purchases)) =>
            Len(db'.purchases) = Len(db.purchases)]_vars

====
